---- MODULE Spec2Model ----
(***************************************************************************)
(* Cycloidal_Calculator.py: the profile generator cycloidal_disk_shape and *)
(* the script main (sliders, profile, pins, derived outputs, equations).   *)
(*                                                                         *)
(* Numbers.  The program's floats are modelled in fixed point:             *)
(*   lengths (D, dp, R, Rr, e)  in hundredths of a millimetre,             *)
(*   the drive-pin diameter drp in ten-thousandths of a millimetre,        *)
(*   angles                     in ticks, Turn ticks to 2*pi,              *)
(*   sines and cosines          scaled by Scale,                           *)
(*   coordinates (x, y, pins)   in hundredths of a millimetre times Scale. *)
(* NaN is the value IEEE arithmetic gives 0/0; it is equal to nothing,     *)
(* itself included (FloatEq).                                              *)
(***************************************************************************)
EXTENDS Integers, Sequences, FiniteSets, TLC

----------------------------------------------------------------------------
(* Fixed-point arithmetic standing for numpy's float arithmetic.           *)

\* 2*np.pi in ticks (hundredths of a degree).
Turn == 360 * 100
Half == Turn \div 2
Quarter == Turn \div 4
Eighth == Turn \div 8

\* Resolution of sines, cosines and ratios.
Scale == 100 * 100

\* np.nan: what 0.0/0.0 evaluates to, carried through arctan, cos, sin, +, -, *.
NaN == -2147483647

Abs(v) == IF v < 0 THEN -v ELSE v
Sgn(v) == IF v < 0 THEN -1 ELSE IF v > 0 THEN 1 ELSE 0

\* IEEE equality of two floats: NaN compares unequal to everything.
FloatEq(a, b) == a # NaN /\ b # NaN /\ a = b

\* sin on [0, pi) (q in ticks, 0 <= q < Half), scaled by Scale.  Bhaskara's
\* rational approximation 16q(H-q) / (5H^2 - 4q(H-q)); like the float sine it is
\* 0 only at q = 0 and 1 only at the quarter turn.
SinHalfTurn(q) ==
    LET P == q * (Half - q)
        raw == (((16 * P) \div Scale) * Scale) \div ((5 * Half * Half - 4 * P) \div Scale)
    IN  IF q = 0 THEN 0
        ELSE IF q = Quarter THEN Scale
        ELSE IF raw <= 0 THEN 1
        ELSE IF raw >= Scale THEN Scale - 1
        ELSE raw

\* np.sin, np.cos of an angle in ticks (any integer): periodic with period Turn.
Sin(a) ==
    LET p == a % Turn
    IN  IF p < Half THEN SinHalfTurn(p) ELSE -SinHalfTurn(p - Half)

Cos(a) == Sin(a + Quarter)

\* arctan(a/b) for 0 <= a <= b, b > 0, in ticks (0 .. Eighth):
\* z*(pi/4 + 0.273*(1 - z)), 0.273 rad = 1564 ticks.
ArcTanUnit(a, b) ==
    LET k == (b \div (10 * Scale)) + 1
        zs == ((a \div k) * Scale) \div (b \div k)
    IN  (zs * Eighth + ((zs * (Scale - zs)) \div Scale) * 1564) \div Scale

\* np.arctan(zn / zd) in ticks, the one-argument arctangent of the float
\* quotient: x/0.0 is +-inf for x # 0 (arctan gives +-pi/2) and 0.0/0.0 is NaN.
ArcTan(zn, zd) ==
    IF zd = 0
    THEN IF zn = 0 THEN NaN ELSE Sgn(zn) * Quarter
    ELSE LET s == Sgn(zn) * Sgn(zd)
             a == Abs(zn)
             b == Abs(zd)
         IN  IF a <= b THEN s * ArcTanUnit(a, b)
                       ELSE s * (Quarter - ArcTanUnit(b, a))

\* int(v) of a length v in hundredths of a millimetre: whole millimetres,
\* truncated toward zero.
PyInt(v) == Sgn(v) * (Abs(v) \div 100)

\* round(n/d) for d > 0: Python 3 rounds to the nearest integer, ties to even.
PyRound(n, d) ==
    LET q == n \div d
        r == n % d
    IN  IF 2 * r < d THEN q
        ELSE IF 2 * r > d THEN q + 1
        ELSE IF q % 2 = 0 THEN q ELSE q + 1

----------------------------------------------------------------------------
(* np.linspace                                                             *)

\* np.linspace(0, 2*np.pi, num, endpoint=True), the mutation of the pin angles:
\* step = 2*pi/(num-1), the last angle 2*pi.
linspace_closed(num) ==
    [i \in 1..num |-> IF num = 1 THEN 0
                      ELSE IF i = num THEN Turn
                      ELSE ((i - 1) * Turn) \div (num - 1)]

\* np.linspace(0.0, 2*np.pi, num): num samples i*step, step = 2*pi/(num-1),
\* the last one set to the stop value; one sample 0.0 for num = 1, none for 0.
linspace(num) ==
    [i \in 1..num |-> IF num = 1 THEN 0
                      ELSE IF i = num THEN Turn
                      ELSE ((i - 1) * Turn) \div (num - 1)]

\* np.linspace(0, 2*np.pi, num, endpoint=False): step = 2*pi/num.
linspace_open(num) ==
    [i \in 1..num |-> ((i - 1) * Turn) \div num]

----------------------------------------------------------------------------
(* cycloidal_disk_shape                                                    *)

\* The mutation R*(e*N) - cos((1-N)*t) of the denominator ('/' typed as '*'),
\* scaled by Scale.
DenominatorProduct(R, e, N, t) ==
    ((R * e * N * Scale) \div (100 * 100)) - Cos((1 - N) * t)

\* (R/(e*N)) - cos((1-N)*t), multiplied through by e*N*Scale: zero exactly
\* when the float denominator is zero.
Denominator(R, e, N, t) == R * Scale - Cos((1 - N) * t) * (e * N)

\* The point (x, y) at parameter t, lines 23 and 24; both coordinates are NaN
\* when the arctangent's argument is 0/0.
Point(R, Rr, e, N, t) ==
    LET at == ArcTan(Sin((1 - N) * t) * (e * N), Denominator(R, e, N, t))
        ph == t + at
    IN  IF at = NaN
        THEN <<NaN, NaN>>
        ELSE <<(R * Cos(t)) - (Rr * Cos(ph)) - (e * Cos(N * t)),
               (-R * Sin(t)) + (Rr * Sin(ph)) + (e * Sin(N * t))>>

\* The outcome of a call: the returned x and y, or the exception Python
\* raises (np.linspace rejects a negative count; R / (e * N) divides by a zero
\* float).  No argument is validated.
cycloidal_disk_shape(R, Rr, e, N, num_points) ==
    IF num_points < 0
    THEN [kind |-> "ValueError", x |-> <<>>, y |-> <<>>]
    ELSE IF e * N = 0
    THEN [kind |-> "ZeroDivisionError", x |-> <<>>, y |-> <<>>]
    ELSE LET t == linspace(num_points)
         IN  [kind |-> "return",
              x |-> [i \in 1..num_points |-> Point(R, Rr, e, N, t[i])[1]],
              y |-> [i \in 1..num_points |-> Point(R, Rr, e, N, t[i])[2]]]

----------------------------------------------------------------------------
(* main: the sliders' ranges and the constants                             *)

\* st.slider("Outer diameter ..."), hundredths of a millimetre.
D_min == 1000
D_max == 25000
D_step == 50
D_value == 10000

\* st.slider("Diameter of pins ..."), hundredths of a millimetre.
dp_min == 100
dp_max == 2000
dp_step == 10
dp_value == 400

\* st.slider("Number of pins (N)").
N_min == 2
N_max == 150
N_value == 26

\* st.slider("Eccentricity ..."), hundredths of a millimetre.
e_min == 5
e_step == 1
e_value == 50

\* st.slider("Diameter of drive pins (mm)"), ten-thousandths of a millimetre.
drp_min == 10000
drp_step == 1000

num_points == 10000
center_x == 0
center_y == 0

\* max_value of the eccentricity slider, float(np.floor(((D/N)/2.0)*10)/10):
\* (D/N)/2 cut down to one decimal.  With D in hundredths, floor(10*(D/N)/2) is
\* the integer quotient of D by 20*N.
e_max(D, N) == (D \div (20 * N)) * 10

\* value of the drive-pin slider, D/3, in ten-thousandths of a millimetre.
drp_value(D) == (D * 100) \div 3

\* The positions a slider offers: min_value + k*step up to max_value.
SliderRange(lo, step, hi) == {v \in lo..hi : (v - lo) % step = 0}

----------------------------------------------------------------------------
(* The positions the model moves the sliders to                            *)

MaxDSteps == 1
MaxNSteps == 2
MaxDrpSteps == 1

\* The outer diameter: the lowest positions and the default.
DChoices ==
    {v \in SliderRange(D_min, D_step, D_max) :
        v <= D_min + MaxDSteps * D_step \/ v = D_value}

\* The pin diameter: the lowest position and the default.
DpChoices ==
    {v \in SliderRange(dp_min, dp_step, dp_max) : v = dp_min \/ v = dp_value}

\* The pin count: the lowest positions, the default and the highest.
NChoices ==
    {v \in N_min..N_max : v <= N_min + MaxNSteps \/ v = N_value \/ v = N_max}

\* The eccentricity: the two ends of the range the slider offers for D and N,
\* and the default when the range holds it.
EChoices(D, N) ==
    {v \in SliderRange(e_min, e_step, e_max(D, N)) :
        v = e_min \/ v = e_value \/ v = e_max(D, N)}

\* The drive-pin diameter: the lowest positions, and the default D/3.
DrpChoices(D) ==
    {drp_min + k * drp_step : k \in 0..MaxDrpSteps} \cup {drp_value(D)}

----------------------------------------------------------------------------
(* main: the derived outputs and the text                                  *)

\* A mutation of the gear reduction: the pin count itself.
gear_reduction_pins(N) == N

\* int(N-1), the number written after "Gear Reduction ->".
gear_reduction(N) == N - 1

\* A mutation of the disk hole diameter: the eccentricity added once.
disk_hole_diameter_once(drp, e) == PyRound(drp + e * 100, 10)

\* round((drp+2*e)*1000)/1000, in thousandths of a millimetre (drp in
\* ten-thousandths, e in hundredths).
disk_hole_diameter(drp, e) == PyRound(drp + 2 * e * 100, 10)

\* The numbers written into the two equations: int(R), Rr, e, int(N), int(-R).
\* R and -R are cut to whole millimetres; str() of a float is exact.
equation_text(R, Rr, e, N) ==
    [R |-> PyInt(R), minusR |-> PyInt(-R), Rr |-> Rr, e |-> e, N |-> N]

----------------------------------------------------------------------------
(* main as a state machine: one step per statement group, pc the position  *)

VARIABLES
    pc,          \* the next step of main ("call"/"returned" for a lone call)
    log,         \* the steps of this run, in the order they were taken
    D, dp, N, e, \* the four sliders above the plot
    Rr, R,       \* dp / 2 and D / 2
    args,        \* the arguments of the call of cycloidal_disk_shape
    ret,         \* its outcome: kind, and the arrays x, y
    pin_angles,  \* np.linspace(0, 2*np.pi, N, endpoint=False)
    pin_x, pin_y,
    fig,         \* the figure: the curve plotted, the circles added, shown or not
    drp,         \* the slider below the plot
    page         \* what st.write has put under "Outputs" and "Equations"

vars == <<pc, log, D, dp, N, e, Rr, R, args, ret, pin_angles, pin_x, pin_y,
          fig, drp, page>>

\* A mutation of the order: the hole diameter written before the drive-pin
\* slider is read.
MainOrderHoleFirst ==
    <<"slider_D", "slider_dp", "slider_N", "slider_e", "derive", "shape", "pins",
      "pyplot", "gear", "hole", "slider_drp", "equations">>

\* The statements of main in the order the script runs them.
MainOrder ==
    <<"slider_D", "slider_dp", "slider_N", "slider_e", "derive", "shape", "pins",
      "pyplot", "gear", "slider_drp", "hole", "equations">>

Successor(step) ==
    LET i == CHOOSE k \in DOMAIN MainOrder : MainOrder[k] = step
    IN  IF i = Len(MainOrder) THEN "done" ELSE MainOrder[i + 1]

\* Taking the step named label.
Step(label) ==
    /\ pc = label
    /\ pc' = Successor(label)
    /\ log' = Append(log, label)

NoArgs == [R |-> 0, Rr |-> 0, e |-> 0, N |-> 0, num_points |-> 0]
NoCall == [kind |-> "none", x |-> <<>>, y |-> <<>>]
NoFig == [curve |-> FALSE, patches |-> <<>>, shown |-> FALSE]
NoPage == [gear |-> <<>>, hole |-> <<>>, equations |-> <<>>]

\* The start of a run of the script: nothing assigned, nothing written.
Fresh ==
    /\ log = <<>>
    /\ D = 0 /\ dp = 0 /\ N = 0 /\ e = 0 /\ Rr = 0 /\ R = 0
    /\ args = NoArgs /\ ret = NoCall
    /\ pin_angles = <<>> /\ pin_x = <<>> /\ pin_y = <<>>
    /\ fig = NoFig /\ drp = 0 /\ page = NoPage

Init == pc = MainOrder[1] /\ Fresh

SliderD ==
    /\ Step("slider_D")
    /\ D' \in DChoices
    /\ UNCHANGED <<dp, N, e, Rr, R, args, ret, pin_angles, pin_x, pin_y, fig, drp, page>>

\* The same slider moved to any of its positions.
SliderDAny ==
    /\ Step("slider_D")
    /\ D' \in SliderRange(D_min, D_step, D_max)
    /\ UNCHANGED <<dp, N, e, Rr, R, args, ret, pin_angles, pin_x, pin_y, fig, drp, page>>

SliderDp ==
    /\ Step("slider_dp")
    /\ dp' \in DpChoices
    /\ UNCHANGED <<D, N, e, Rr, R, args, ret, pin_angles, pin_x, pin_y, fig, drp, page>>

SliderN ==
    /\ Step("slider_N")
    /\ N' \in NChoices
    /\ UNCHANGED <<D, dp, e, Rr, R, args, ret, pin_angles, pin_x, pin_y, fig, drp, page>>

\* The eccentricity slider offers min_value .. max_value; when max_value is
\* below min_value it offers nothing and the run does not get past it.
SliderE ==
    /\ Step("slider_e")
    /\ e' \in EChoices(D, N)
    /\ UNCHANGED <<D, dp, N, Rr, R, args, ret, pin_angles, pin_x, pin_y, fig, drp, page>>

\* Rr = dp / 2; R = (D) / 2.
Derive ==
    /\ Step("derive")
    /\ Rr' = dp \div 2
    /\ R' = D \div 2
    /\ UNCHANGED <<D, dp, N, e, args, ret, pin_angles, pin_x, pin_y, fig, drp, page>>

\* x, y = cycloidal_disk_shape(R, Rr, e, N, num_points); ax.plot(x, y).
Shape ==
    /\ Step("shape")
    /\ args' = [R |-> R, Rr |-> Rr, e |-> e, N |-> N, num_points |-> num_points]
    /\ ret' = cycloidal_disk_shape(R, Rr, e, N, num_points)
    /\ fig' = [fig EXCEPT !.curve = TRUE]
    /\ UNCHANGED <<D, dp, N, e, Rr, R, pin_angles, pin_x, pin_y, drp, page>>

\* The pin centres on the circle of radius R, and one red circle of radius
\* dp/2 for each i in range(N).
PinCircles(cx, cy, n, r) ==
    [i \in 1..n |-> [x |-> cx[i], y |-> cy[i], r |-> r]]

Pins ==
    /\ Step("pins")
    /\ LET angles == linspace_open(N)
           px == [i \in 1..N |-> center_x * Scale + R * Cos(angles[i])]
           py == [i \in 1..N |-> center_y * Scale + R * Sin(angles[i])]
       IN  /\ pin_angles' = angles
           /\ pin_x' = px
           /\ pin_y' = py
           /\ fig' = [fig EXCEPT !.patches = PinCircles(px, py, N, dp \div 2)]
    /\ UNCHANGED <<D, dp, N, e, Rr, R, args, ret, drp, page>>

\* st.pyplot(fig).
Pyplot ==
    /\ Step("pyplot")
    /\ fig' = [fig EXCEPT !.shown = TRUE]
    /\ UNCHANGED <<D, dp, N, e, Rr, R, args, ret, pin_angles, pin_x, pin_y, drp, page>>

\* st.write("Gear Reduction ->", str(int(N-1)), ": 1").
GearReduction ==
    /\ Step("gear")
    /\ page' = [page EXCEPT !.gear = <<gear_reduction(N)>>]
    /\ UNCHANGED <<D, dp, N, e, Rr, R, args, ret, pin_angles, pin_x, pin_y, fig, drp>>

SliderDrp ==
    /\ Step("slider_drp")
    /\ drp' \in DrpChoices(D)
    /\ UNCHANGED <<D, dp, N, e, Rr, R, args, ret, pin_angles, pin_x, pin_y, fig, page>>

\* st.write("Disk Hole Diameter(mm):", str(round((drp+2*e)*1000)/1000)).
DiskHoleDiameter ==
    /\ Step("hole")
    /\ page' = [page EXCEPT !.hole = <<disk_hole_diameter(drp, e)>>]
    /\ UNCHANGED <<D, dp, N, e, Rr, R, args, ret, pin_angles, pin_x, pin_y, fig, drp>>

\* The two st.write calls under "Generated Cycloidal Disk Equations:".
Equations ==
    /\ Step("equations")
    /\ page' = [page EXCEPT !.equations = <<equation_text(R, Rr, e, N)>>]
    /\ UNCHANGED <<D, dp, N, e, Rr, R, args, ret, pin_angles, pin_x, pin_y, fig, drp>>

\* The run is over: main returned, or the eccentricity slider had no position
\* to offer.
RunOver ==
    IF pc = "slider_e" THEN SliderRange(e_min, e_step, e_max(D, N)) = {}
                       ELSE pc = "done"

\* The script runs again from the top (the user touched a widget).
Rerun ==
    /\ RunOver
    /\ pc' = MainOrder[1]
    /\ log' = <<>>
    /\ D' = 0 /\ dp' = 0 /\ N' = 0 /\ e' = 0 /\ Rr' = 0 /\ R' = 0
    /\ args' = NoArgs /\ ret' = NoCall
    /\ pin_angles' = <<>> /\ pin_x' = <<>> /\ pin_y' = <<>>
    /\ fig' = NoFig /\ drp' = 0 /\ page' = NoPage

Next ==
    \/ SliderD \/ SliderDp \/ SliderN \/ SliderE \/ Derive \/ Shape \/ Pins
    \/ Pyplot \/ GearReduction \/ SliderDrp \/ DiskHoleDiameter \/ Equations
    \/ Rerun

Spec == Init /\ [][Next]_vars

\* The sliders alone, the outer diameter over its whole range: the parameters
\* main hands to cycloidal_disk_shape.
NextInputs == SliderDAny \/ SliderDp \/ SliderN \/ SliderE \/ Derive

SpecInputs == Init /\ [][NextInputs]_vars

----------------------------------------------------------------------------
(* cycloidal_disk_shape called on its own, with arguments of every kind    *)

MaxShapeN == 3
MaxPoints == 5

ShapeArgs ==
    [R : {-500, 0, 500, 5000},
     Rr : {-200, 0, 200},
     e : {0, 50, 250},
     N : 0..MaxShapeN,
     num_points : (-1)..MaxPoints]

InitShape ==
    /\ pc = "call"
    /\ log = <<>>
    /\ D = 0 /\ dp = 0 /\ N = 0 /\ e = 0 /\ Rr = 0 /\ R = 0
    /\ args \in ShapeArgs
    /\ ret = NoCall
    /\ pin_angles = <<>> /\ pin_x = <<>> /\ pin_y = <<>>
    /\ fig = NoFig /\ drp = 0 /\ page = NoPage

Return ==
    /\ pc = "call"
    /\ pc' = "returned"
    /\ ret' = cycloidal_disk_shape(args.R, args.Rr, args.e, args.N, args.num_points)
    /\ UNCHANGED <<log, D, dp, N, e, Rr, R, args, pin_angles, pin_x, pin_y, fig, drp, page>>

SpecShape == InitShape /\ [][Return]_vars

----------------------------------------------------------------------------
(* Properties                                                              *)

\* The step has been taken in this run.
Done(step) == \E i \in DOMAIN log : log[i] = step

\* In this run every step b was preceded by step a.
Before(a, b) ==
    \A j \in DOMAIN log : log[j] = b => \E i \in 1..(j - 1) : log[i] = a

\* The preconditions of the profile generator: R > 0, Rr > 0, e > 0, N >= 2,
\* numPoints >= 2.
ValidParameters(a) ==
    a.R > 0 /\ a.Rr > 0 /\ a.e > 0 /\ a.N >= 2 /\ a.num_points >= 2

\* C1: for every R > 0, Rr > 0, e > 0, N >= 2 and numPoints >= 2 the call
\* returns x and y of numPoints entries each, sampled at t_i = 2*pi*i/(numPoints-1)
\* from t = 0 to t = 2*pi, and the first and the last (x, y) pairs are equal.
C1_ClosedProfile ==
    (pc = "returned" /\ ValidParameters(args)) =>
        LET n == args.num_points
            t == [i \in 1..n |-> ((i - 1) * Turn) \div (n - 1)]
        IN  /\ ret.kind = "return"
            /\ Len(ret.x) = n /\ Len(ret.y) = n
            /\ t[1] = 0 /\ t[n] = Turn
            /\ \A i \in 1..n :
                  LET p == Point(args.R, args.Rr, args.e, args.N, t[i])
                  IN  ret.x[i] = p[1] /\ ret.y[i] = p[2]
            /\ FloatEq(ret.x[1], ret.x[n])
            /\ FloatEq(ret.y[1], ret.y[n])

C3_MinimumNoDivideByZero ==
    (pc = "shape" /\ N = N_min /\ e = e_min) =>
        LET t == linspace(num_points)
        IN  \A i \in 1..num_points : Denominator(R, e, N, t[i]) # 0

C3_Witness == pc = "shape" /\ N = N_min /\ e = e_min /\ D = D_max /\ R = 12500

\* C4: a call that violates a precondition (R <= 0, Rr <= 0, e <= 0, N < 2 or
\* numPoints <= 0) ends in InvalidParameterError and returns no coordinates.
C4_InvalidParameterError ==
    (pc = "returned" /\
       (args.R <= 0 \/ args.Rr <= 0 \/ args.e <= 0 \/ args.N < 2 \/ args.num_points <= 0)) =>
        /\ ret.kind = "InvalidParameterError"
        /\ ret.x = <<>> /\ ret.y = <<>>

\* C5: the disk hole diameter shown is drp + 2*e rounded to three decimals
\* (exactly drp + 2*e for a drp on the 0.1 grid); it grows strictly with drp (in
\* steps of 0.1) for the same e and with e (in steps of 0.01) for the same drp;
\* drp = 33.33 and e = 0.5 give 34.33.
C5_DiskHoleDiameter ==
    Done("hole") =>
        LET shown == page.hole[1]
            exact == drp + 2 * e * 100
        IN  /\ Len(page.hole) = 1
            /\ 2 * Abs(10 * shown - exact) <= 10
            /\ (drp % drp_step = 0) => 10 * shown = exact
            /\ \A k \in 1..3 :
                  /\ disk_hole_diameter(drp + k * drp_step, e) > shown
                  /\ disk_hole_diameter(drp, e + k * e_step) > shown
            /\ disk_hole_diameter(333300, 50) = 34330

C5_Witness ==
    /\ Done("hole") /\ D = D_value /\ e = e_value
    /\ drp = 333333 /\ page.hole = <<34333>>

\* C6: for every pin count of the slider (2..150) the gear reduction shown is
\* the integer N - 1, whatever D, dp, e and the drive-pin diameter are; N = 26
\* gives 25.
C6_GearReduction ==
    Done("gear") =>
        /\ N \in N_min..N_max
        /\ Len(page.gear) = 1
        /\ page.gear[1] + 1 = N

C6_Witness == Done("gear") /\ N = 26 /\ page.gear = <<25>> /\ D = D_min

\* C7: the slider bounds keep the denominator from being singular: for every
\* D, N and e the sliders allow, R is never e*N, the denominator is nonzero at
\* every sampled t and no NaN is put into x or y.
C7_NoSingularDenominator ==
    (ret.kind = "return") =>
        LET t == linspace(args.num_points)
        IN  /\ args.R # args.e * args.N
            /\ \A i \in 1..args.num_points :
                  /\ Denominator(args.R, args.e, args.N, t[i]) # 0
                  /\ ret.x[i] # NaN /\ ret.y[i] # NaN

\* C8: for every D and N the sliders allow, the upper bound of the
\* eccentricity, floor((D/N)/2*10)/10, is at least its lower bound 0.05.
C8_EccentricityRangeNotEmpty ==
    (pc = "slider_e") =>
        /\ D \in SliderRange(D_min, D_step, D_max)
        /\ N \in N_min..N_max
        /\ e_max(D, N) >= e_min

\* C9: the equations shown carry exactly the R, Rr, e and N that were passed to
\* cycloidal_disk_shape, also when R is not a whole number.
C9_EquationsCarryArguments ==
    Done("equations") =>
        LET q == page.equations[1]
        IN  /\ 100 * q.R = args.R
            /\ 100 * q.minusR = -args.R
            /\ q.Rr = args.Rr
            /\ q.e = args.e
            /\ q.N = args.N

\* C10 as claimed: all five parameters (the drive-pin diameter too) are
\* collected before the profile is generated, then the pins are computed, then
\* the derived outputs written, and only then the figure is rendered.
C10_OrderAsClaimed ==
    /\ \A s \in {"slider_D", "slider_dp", "slider_N", "slider_e", "slider_drp"} :
          Before(s, "shape")
    /\ Before("shape", "pins")
    /\ Before("pins", "gear") /\ Before("pins", "hole")
    /\ Before("gear", "pyplot") /\ Before("hole", "pyplot")

\* C10 as amended: in every run D, dp, N and e are collected first, then the
\* profile is generated, then the pins are computed, then the figure is
\* rendered, then the gear reduction is written, then the drive-pin diameter is
\* collected, then the disk hole diameter and the equations are written; no step
\* uses a parameter collected after it.
C10_OrderOfMain ==
    /\ \E k \in 0..12 :
          log = SubSeq(<<"slider_D", "slider_dp", "slider_N", "slider_e", "derive",
                         "shape", "pins", "pyplot", "gear", "slider_drp", "hole",
                         "equations">>, 1, k)
    /\ \A s \in {"slider_D", "slider_dp", "slider_N", "slider_e"} :
          Before(s, "derive") /\ Before(s, "shape") /\ Before(s, "pins")
    /\ Before("slider_N", "gear")
    /\ Before("slider_drp", "hole") /\ Before("slider_e", "hole")
    /\ Before("derive", "equations")

C10_Witness ==
    /\ pc = "done"
    /\ Len(log) = 12
    /\ fig.shown /\ page.gear # <<>> /\ page.hole # <<>> /\ page.equations # <<>>

====
